---- MODULE Spec2Model ----
(***************************************************************************)
(* Delivery registry of webitel/im-delivery-service: the sharded Hub, the  *)
(* per-user Cell actor and its delivery loop, the pooled Connector with    *)
(* its prioritized backpressure, the transport handlers that hold a        *)
(* Connector handle, and the inbound AMQP binder with its retry chain.     *)
(***************************************************************************)
EXTENDS Integers, Sequences, FiniteSets, TLC

\* ------------------------------------------------------------------ bounds
\* sizes of the universe
NumUsers == 2
NumHandlers == 2
MaxCells == 2
NumMsgs == 1
\* tokens of a routing key at most
KeyTokens == 2
\* peers with an identity
NumPeers == 1
\* the registry scenario (Spec): every task of the Hub, small queues
HubEvents == 2
HubUsers == 1
HubTime == 2
HubBuffer == 1
HubMailbox == 1
\* hubConfig.idleTimeout, in clock units
IdleTimeout == 1
\* the clock scenario (SpecIdle): ticks of the clock in a second, and its end
TicksPerSecond == 2
IdleTime == 2
\* calls of Hub.Shutdown
ShutdownCalls == 2
\* the Connector scenario (SpecConn): one session, its queue and its closers
ConnUsers == 1
ConnHandlers == 1
ConnBuffer == 2
ConnMailbox == 1
ConnEvents == 3
\* the pool scenario (SpecPool): long-poll sessions of different users
PoolBuffer == 1
PoolMailbox == 1
PoolEvents == 2
\* the binder scenario (SpecBind): one bus message under the retry chain
BindBuffer == 1
BindMailbox == 1
BindEvents == 2
\* the stale-handle scenario (SpecStale): long-poll sessions and Shutdown
StaleUsers == 1
StaleEvents == 1
\* the marshalling scenario (SpecMarshal): two sessions of one user
MarshalUsers == 1
MarshalBuffer == 1
MarshalMailbox == 1
MarshalEvents == 2

\* ------------------------------------------------------- program constants
shardCount == 256
PriorityLow == 10
PriorityNormal == 20
PriorityHigh == 30
DrainBatch == 64
MaxRetries == 3

Users == 1..NumUsers
Handlers == 1..NumHandlers
Ptrs == 1..NumHandlers
CellIds == 1..MaxCells
Msgs == 1..NumMsgs
Priorities == {PriorityLow, PriorityNormal, PriorityHigh}
Kinds == {"stream", "poll"}

\* getShard: the shard index is the first byte of the userID.
getShard(userID) == userID % shardCount
Shards == {getShard(u) : u \in Users}

NoEv == [id |-> 0, user |-> 0, prio |-> 0, msg |-> 0]
PeerIds == 1..NumPeers
Max(a, b) == IF a > b THEN a ELSE b
EventIds == 1..Max(Max(HubEvents, ConnEvents),
                   Max(PoolEvents, Max(BindEvents, MarshalEvents)))

VARIABLES
  now,        \* wall clock, in units of IdleTimeout
  shardLock,  \* shard -> "free" | "evictor" | "shutdown"
  shardNil,   \* shard -> TRUE once Shutdown set s.cells = nil
  shardCells, \* user -> cell id stored in its shard's map, 0 when absent
  cell,       \* cell id -> Cell struct
  loop,       \* cell id -> state of the Cell's loop goroutine
  obj,        \* pointer -> pooled connect struct
  sess,       \* session -> the channel and context made by reset for it
  handler,    \* transport task -> its position and its Connector handle
  evictor,    \* the runEvictor goroutine
  hub,        \* stopCh, closeOnce and the position of the Shutdown caller
  msgs,       \* bus message -> delivery state under the middleware chain
  nextEv,     \* ids of events, in creation order
  crashed,    \* "" or the unrecovered panic that ended the process
  cfg,        \* hubConfig and Subscribe's buffer size, and the scenario's size
  enricher,   \* PeerEnricher: its cache, and the last call with its result
  evCache     \* event id -> the writes of the event's marshal cache slot

vars == <<now, shardLock, shardNil, shardCells, cell, loop, obj, sess,
          handler, evictor, hub, msgs, nextEv, crashed, cfg, enricher, evCache>>

\* ------------------------------------------------------------ initial state
ZeroCell == [user |-> 0, mailbox |-> <<>>, sessions |-> {}, done |-> FALSE,
             last |-> 0, act |-> 0, stops |-> 0, stored |-> FALSE,
             pushed |-> "none"]
NoConn == [id |-> 0, ptr |-> 0]
NoPeer == [id |-> 0, type |-> "none", name |-> ""]
ZeroLoop == [pc |-> "none", ev |-> NoEv, pending |-> {}, batch |-> 0,
             spc |-> "idle", sx |-> NoConn, sch |-> 0, sctx |-> 0,
             sold |-> NoEv, sq |-> <<>>, ret |-> "none"]
ZeroObj == [sess |-> 0, chNil |-> TRUE, once |-> "fresh", inPool |-> FALSE,
            dropped |-> 0]
ZeroSess == [buf |-> <<>>, closed |-> FALSE, cancelled |-> FALSE,
             enq |-> <<>>, calls |-> 0, cancels |-> 0, closes |-> 0,
             puts |-> 0]
ZeroHandler == [pc |-> "idle", user |-> 0, kind |-> "stream", ptr |-> 0,
                cell |-> 0, connID |-> 0, hch |-> 0, n |-> 0, got |-> <<>>,
                tctx |-> FALSE, m |-> "none"]

HubCfg == [bufferSize |-> HubBuffer, mailboxSize |-> HubMailbox,
           idleTimeout |-> IdleTimeout, events |-> HubEvents,
           time |-> HubTime, users |-> HubUsers, handlers |-> NumHandlers,
           msgs |-> NumMsgs, tps |-> 1]

InitWith(conf) ==
  /\ cfg = conf
  /\ now = 0
  /\ shardLock = [s \in Shards |-> "free"]
  /\ shardNil = [s \in Shards |-> FALSE]
  /\ shardCells = [u \in Users |-> 0]
  /\ cell = [c \in CellIds |-> ZeroCell]
  /\ loop = [c \in CellIds |-> ZeroLoop]
  /\ obj = [p \in Ptrs |-> ZeroObj]
  /\ sess = [h \in Handlers |-> ZeroSess]
  /\ handler = [h \in Handlers |-> ZeroHandler]
  /\ evictor = [pc |-> "wait", shard |-> 0, todo |-> {}, cur |-> 0]
  /\ hub = [stopped |-> FALSE, once |-> FALSE, pc |-> "idle", shard |-> 0,
            todo |-> {}, cur |-> 0, calls |-> 0, closes |-> 0]
  /\ msgs = [m \in Msgs |-> [st |-> "none", target |-> 0, uuids |-> FALSE,
                              ok |-> FALSE,
                              tries |-> 0, dec |-> FALSE, fn |-> FALSE,
                              bc |-> FALSE, pub |-> FALSE, evt |-> "nil",
                              key |-> "", res |-> "none",
                              err |-> "none"]]
  /\ nextEv = 1
  /\ crashed = ""
  /\ evCache = [e \in EventIds |-> 0]
  /\ enricher = [cache |-> [i \in PeerIds |-> NoPeer], op |-> "none",
                 in |-> <<>>, looked |-> <<>>, out |-> <<>>, err |-> "none"]

Init == InitWith(HubCfg)

ConnCfg == [bufferSize |-> ConnBuffer, mailboxSize |-> ConnMailbox,
            idleTimeout |-> IdleTimeout, events |-> ConnEvents,
            time |-> 0, users |-> ConnUsers, handlers |-> ConnHandlers,
            msgs |-> 0, tps |-> 1]

InitConn == InitWith(ConnCfg)

PoolCfg == [bufferSize |-> PoolBuffer, mailboxSize |-> PoolMailbox,
            idleTimeout |-> IdleTimeout, events |-> PoolEvents,
            time |-> 0, users |-> NumUsers, handlers |-> NumHandlers,
            msgs |-> 0, tps |-> 1]

InitPool == InitWith(PoolCfg)

BindCfg == [bufferSize |-> BindBuffer, mailboxSize |-> BindMailbox,
            idleTimeout |-> IdleTimeout, events |-> BindEvents,
            time |-> 0, users |-> ConnUsers, handlers |-> ConnHandlers,
            msgs |-> NumMsgs, tps |-> 1]

InitBind == InitWith(BindCfg)

\* ------------------------------------------------------------------ helpers
Alive == crashed = ""

SeqToSet(q) == {q[i] : i \in 1..Len(q)}

\* A locality filter that lets every user through.
AlwaysConnected(userID) == TRUE

\* Hub.IsConnected: presence of the user's key in its shard's map.
IsConnected(userID) == shardCells[userID] # 0

\* A shard's RWMutex is available to a reader or a writer.
ShardFree(s) == shardLock[s] = "free"

\* Cell.mu is available to a writer: the loop holds the read lock for the
\* whole of deliver, Sends included.
CellMuFree(c) == loop[c].pc # "deliver"

\* The session context made by reset: a child of the transport context.
CtxDone(h) == sess[h].cancelled \/ handler[h].tctx

\* Cell.touch
\* time.Now().Unix(): the clock cut down to the whole second (in ticks).
Unix(t) == (t \div cfg.tps) * cfg.tps

\* Cell.touch; act is the instant of the activity itself.
touch(c) == [c EXCEPT !.last = Unix(now), !.act = now]

\* An evictor for which no Cell is ever idle.
NeverIdle(c, timeout) == FALSE

\* Cell.IsIdle
IsIdle(c, timeout) ==
  IF c.sessions # {} THEN FALSE ELSE now - c.last > timeout

\* ------------------------------------------------------- Connector and pool
\* connectPool.Get: any pooled object, or a new one from Pool.New.
PoolGet ==
  LET pooled == {p \in Ptrs : obj[p].inPool}
      unused == {p \in Ptrs : obj[p].sess = 0 /\ ~obj[p].inPool}
  IN  pooled \cup (IF unused = {} THEN {}
                   ELSE {CHOOSE p \in unused : \A q \in unused : p <= q})

\* connect.reset: the whole struct is overwritten, closeOnce included.
reset(h) == [sess |-> h, chNil |-> FALSE, once |-> "fresh", inPool |-> FALSE,
             dropped |-> 0]

\* The channel conn.Recv() / c.sendCh evaluates to: 0 is the nil channel.
sendCh(p) == IF obj[p].chNil THEN 0 ELSE obj[p].sess

HasRoom(ch) == ch # 0 /\ ~sess[ch].closed /\ Len(sess[ch].buf) < cfg.bufferSize

\* A buffered channel send that found room.
Enqueue(s, ev) == [s EXCEPT !.buf = Append(@, ev), !.enq = Append(@, ev)]

\* connect.Close inside closeOnce.Do, step 1: c.cancelFn().
CloseCancel(s) == [s EXCEPT !.cancelled = TRUE, !.cancels = @ + 1]
\* step 2: close(c.sendCh) when it is not nil.
CloseChan(s) == [s EXCEPT !.closed = TRUE, !.closes = @ + 1]
\* step 3: c.sendCh = nil, connectPool.Put(c), and the Once is done.
ClosePut(o) == [o EXCEPT !.chNil = TRUE, !.inPool = TRUE, !.once = "done"]

\* A Close with no closeOnce, as that of model/connect.go.
OnceAlways(o) == TRUE

\* closeOnce.Do lets the caller in.
OnceEnters(o) == o.once = "fresh"

\* The whole of connect.Close on each pointer of P, as Cell.Stop runs it
\* under the Cell's write lock.
CloseAllObj(P) ==
  [p \in Ptrs |-> IF p \in P /\ OnceEnters(obj[p]) THEN ClosePut(obj[p])
                  ELSE obj[p]]
CloseAllSess(P) ==
  [h \in Handlers |->
     IF \E p \in P : obj[p].sess = h
     THEN LET p == CHOOSE q \in P : obj[q].sess = h
              s0 == [sess[h] EXCEPT !.calls = @ + 1]
              s1 == CloseCancel(s0)
              s2 == IF obj[p].chNil THEN s1 ELSE CloseChan(s1)
          IN  IF OnceEnters(obj[p]) THEN [s2 EXCEPT !.puts = @ + 1] ELSE s0
     ELSE sess[h]]

\* --------------------------------------------------------- transport tasks
\* DeliveryService.Subscribe, first half: registry.NewConnector.
NewConnector(h, u, k) ==
  /\ Alive
  /\ handler[h].pc = "idle"
  /\ h <= cfg.handlers /\ u <= cfg.users
  /\ \A g \in Handlers : g < h => handler[g].pc # "idle"
  /\ \E p \in PoolGet :
       /\ obj' = [obj EXCEPT ![p] = reset(h)]
       /\ handler' = [handler EXCEPT ![h] =
             [@ EXCEPT !.pc = "new", !.user = u, !.kind = k, !.ptr = p]]
  /\ UNCHANGED <<now, shardLock, shardNil, shardCells, cell, loop, sess,
                 evictor, hub, msgs, nextEv, crashed, cfg, enricher, evCache>>

FreeCells == {c \in CellIds : cell[c].user = 0}

\* NewCell: the struct, and go c.loop().
NewCell(userID) ==
  [user |-> userID, mailbox |-> <<>>, sessions |-> {}, done |-> FALSE,
   last |-> Unix(now), act |-> now, stops |-> 0, stored |-> FALSE,
   pushed |-> "none"]

\* A lookup that never finds the user's cell.
LookupMiss(userID) == 0

\* cell, ok := s.cells[userID]
Lookup(userID) == shardCells[userID]

\* Hub.Register, the section under the shard's write lock.
Register(h) ==
  LET u == handler[h].user
      s == getShard(u)
  IN
  /\ Alive
  /\ handler[h].pc = "new"
  /\ ShardFree(s)
  /\ IF Lookup(u) # 0
     THEN /\ handler' = [handler EXCEPT ![h] =
                 [@ EXCEPT !.pc = "attach", !.cell = Lookup(u)]]
          /\ UNCHANGED <<shardCells, cell, loop, shardLock, crashed>>
     ELSE /\ FreeCells # {}
          /\ LET c == CHOOSE x \in FreeCells : \A y \in FreeCells : x <= y
             IN  /\ cell' = [cell EXCEPT ![c] =
                           [NewCell(u) EXCEPT !.stored = ~shardNil[s]]]
                 /\ loop' = [loop EXCEPT ![c] = [@ EXCEPT !.pc = "wait"]]
                 /\ IF shardNil[s]
                    THEN \* s.cells[userID] = cell on the nil map panics with
                         \* the shard lock held; only net/http recovers it.
                         /\ shardLock' = [shardLock EXCEPT ![s] = "dead"]
                         /\ handler' = [handler EXCEPT ![h] =
                               [@ EXCEPT !.pc = "done"]]
                         /\ crashed' = IF handler[h].kind = "stream"
                                       THEN "assignment to entry in nil map"
                                       ELSE crashed
                         /\ UNCHANGED shardCells
                    ELSE /\ shardCells' = [shardCells EXCEPT ![u] = c]
                         /\ handler' = [handler EXCEPT ![h] =
                               [@ EXCEPT !.pc = "attach", !.cell = c]]
                         /\ UNCHANGED <<shardLock, crashed>>
  /\ UNCHANGED <<now, shardNil, obj, sess, evictor, hub, msgs, nextEv, cfg, enricher, evCache>>

\* Cell.Attach
Attach(c, id, p) ==
  touch([c EXCEPT !.sessions =
           {x \in @ : x.id # id} \cup {[id |-> id, ptr |-> p]}])

\* Cell.Detach
Detach(c, id) == touch([c EXCEPT !.sessions = {x \in @ : x.id # id}])

\* Hub.Register, after the shard lock is released: cell.Attach(conn). Register
\* returns and the handler defers Unsubscribe(userID, conn.GetID()).
RegisterAttach(h) ==
  LET c == handler[h].cell
      p == handler[h].ptr
  IN
  /\ Alive
  /\ handler[h].pc = "attach"
  /\ CellMuFree(c)
  /\ cell' = [cell EXCEPT ![c] = Attach(@, obj[p].sess, p)]
  /\ handler' = [handler EXCEPT ![h] =
        [@ EXCEPT !.pc = "run", !.connID = obj[p].sess]]
  /\ UNCHANGED <<now, shardLock, shardNil, shardCells, loop, obj, sess,
                 evictor, hub, msgs, nextEv, crashed, cfg, enricher, evCache>>

\* The transport context is cancelled (client gone, deadline).
CancelTransport(h) ==
  /\ Alive
  /\ handler[h].pc \in {"new", "attach", "run", "sel"}
  /\ ~handler[h].tctx
  /\ handler' = [handler EXCEPT ![h] = [@ EXCEPT !.tctx = TRUE]]
  /\ UNCHANGED <<now, shardLock, shardNil, shardCells, cell, loop, obj, sess,
                 evictor, hub, msgs, nextEv, crashed, cfg, enricher, evCache>>

\* The handler enters its select: conn.Recv() is evaluated here.
EnterSelect(h) ==
  /\ Alive
  /\ handler[h].pc = "run"
  /\ handler' = [handler EXCEPT ![h] =
        [@ EXCEPT !.pc = "sel", !.hch = sendCh(handler[h].ptr)]]
  /\ UNCHANGED <<now, shardLock, shardNil, shardCells, cell, loop, obj, sess,
                 evictor, hub, msgs, nextEv, crashed, cfg, enricher, evCache>>

\* Where a handler goes when its function returns: the LP handler runs its
\* deferred conn.Close() first, every handler then runs Unsubscribe.
ExitPc(h) == IF handler[h].kind = "poll" THEN "close1" ELSE "unsub"

\* case ev, ok := <-conn.Recv() with an event.
Recv(h) ==
  LET ch == handler[h].hch IN
  /\ Alive
  /\ handler[h].pc = "sel"
  /\ ch # 0
  /\ sess[ch].buf # <<>>
  /\ sess' = [sess EXCEPT ![ch] = [@ EXCEPT !.buf = Tail(@)]]
  /\ handler' = [handler EXCEPT ![h] =
        [@ EXCEPT !.got = Append(@, Head(sess[ch].buf)),
                  !.pc = IF handler[h].kind = "poll" THEN "drain" ELSE "run",
                  !.n = 0, !.m = "none"]]
  /\ UNCHANGED <<now, shardLock, shardNil, shardCells, cell, loop, obj,
                 evictor, hub, msgs, nextEv, crashed, cfg, enricher, evCache>>

\* The long-poll drain loop: up to 15 more non-blocking receives, each on a
\* fresh conn.Recv().
LPDrainMax == 15
Drain(h) ==
  LET ch == sendCh(handler[h].ptr) IN
  /\ Alive
  /\ handler[h].pc = "drain"
  /\ handler[h].n < LPDrainMax
  /\ ch # 0
  /\ sess[ch].buf # <<>>
  /\ sess' = [sess EXCEPT ![ch] = [@ EXCEPT !.buf = Tail(@)]]
  /\ handler' = [handler EXCEPT ![h] =
        [@ EXCEPT !.got = Append(@, Head(sess[ch].buf)), !.n = @ + 1]]
  /\ UNCHANGED <<now, shardLock, shardNil, shardCells, cell, loop, obj,
                 evictor, hub, msgs, nextEv, crashed, cfg, enricher, evCache>>

DrainEnd(h) ==
  LET ch == sendCh(handler[h].ptr) IN
  /\ Alive
  /\ handler[h].pc = "drain"
  /\ IF handler[h].n >= LPDrainMax \/ ch = 0 THEN TRUE
     ELSE sess[ch].buf = <<>>
  /\ handler' = [handler EXCEPT ![h] = [@ EXCEPT !.pc = "close1"]]
  /\ UNCHANGED <<now, shardLock, shardNil, shardCells, cell, loop, obj, sess,
                 evictor, hub, msgs, nextEv, crashed, cfg, enricher, evCache>>

\* The select leaves without an event: the channel was closed (!ok), the
\* transport context is done, or the long-poll timer fired.
SelectExit(h) ==
  LET ch == handler[h].hch IN
  /\ Alive
  /\ handler[h].pc = "sel"
  /\ \/ ch # 0 /\ sess[ch].buf = <<>> /\ sess[ch].closed
     \/ handler[h].tctx
     \/ handler[h].kind = "poll"
  /\ handler' = [handler EXCEPT ![h] = [@ EXCEPT !.pc = ExitPc(h)]]
  /\ UNCHANGED <<now, shardLock, shardNil, shardCells, cell, loop, obj, sess,
                 evictor, hub, msgs, nextEv, crashed, cfg, enricher, evCache>>

\* MarshallDeliveryEvent of the event just received, its first part: the
\* cache slot of the event is read (ev.GetCached()).
MarshalCheck(h) ==
  /\ Alive
  /\ handler[h].pc = "run"
  /\ handler[h].got # <<>>
  /\ handler[h].m = "none"
  /\ handler' = [handler EXCEPT ![h] =
        [@ EXCEPT !.m = IF evCache[handler[h].got[Len(handler[h].got)].id] > 0
                        THEN "hit" ELSE "miss"]]
  /\ UNCHANGED <<now, shardLock, shardNil, shardCells, cell, loop, obj, sess,
                 evictor, hub, msgs, nextEv, crashed, cfg, enricher, evCache>>

\* MarshallDeliveryEvent after a miss: the event is marshalled and the slot
\* written (ev.SetCached(res)).
MarshalSet(h) ==
  /\ Alive
  /\ handler[h].pc = "run"
  /\ handler[h].m = "miss"
  /\ evCache' = [evCache EXCEPT
                   ![handler[h].got[Len(handler[h].got)].id] = @ + 1]
  /\ handler' = [handler EXCEPT ![h] = [@ EXCEPT !.m = "set"]]
  /\ UNCHANGED <<now, shardLock, shardNil, shardCells, cell, loop, obj, sess,
                 evictor, hub, msgs, nextEv, crashed, cfg, enricher>>

\* stream.Send of the welcome event or of the marshalled event succeeded:
\* the handler goes (back) to its select.
Transmitted(h) ==
  /\ handler[h].got = <<>> \/ handler[h].m \in {"hit", "set"}
  /\ EnterSelect(h)

\* stream.Send / ws.WriteMessage fails: the stream handler returns.
TransmitFail(h) ==
  /\ Alive
  /\ handler[h].pc = "run"
  /\ handler[h].kind = "stream"
  /\ handler' = [handler EXCEPT ![h] = [@ EXCEPT !.pc = "unsub"]]
  /\ UNCHANGED <<now, shardLock, shardNil, shardCells, cell, loop, obj, sess,
                 evictor, hub, msgs, nextEv, crashed, cfg, enricher, evCache>>

\* connect.Close called by the long-poll handler, step by step. A caller that
\* finds the Once done returns at once; one that finds it running waits.
HandlerClose1(h) ==
  LET p == handler[h].ptr IN
  /\ Alive
  /\ handler[h].pc = "close1"
  /\ obj[p].once # "running"
  /\ IF OnceEnters(obj[p])
     THEN /\ obj' = [obj EXCEPT ![p] = [@ EXCEPT !.once = "running"]]
          /\ sess' = [sess EXCEPT ![obj[p].sess] =
                CloseCancel([@ EXCEPT !.calls = @ + 1])]
          /\ handler' = [handler EXCEPT ![h] = [@ EXCEPT !.pc = "close2"]]
     ELSE /\ handler' = [handler EXCEPT ![h] = [@ EXCEPT !.pc = "unsub"]]
          /\ sess' = [sess EXCEPT ![obj[p].sess] = [@ EXCEPT !.calls = @ + 1]]
          /\ UNCHANGED obj
  /\ UNCHANGED <<now, shardLock, shardNil, shardCells, cell, loop,
                 evictor, hub, msgs, nextEv, crashed, cfg, enricher, evCache>>

HandlerClose2(h) ==
  LET p == handler[h].ptr IN
  /\ Alive
  /\ handler[h].pc = "close2"
  /\ sess' = [sess EXCEPT ![obj[p].sess] =
        IF obj[p].chNil THEN @ ELSE CloseChan(@)]
  /\ handler' = [handler EXCEPT ![h] = [@ EXCEPT !.pc = "close3"]]
  /\ UNCHANGED <<now, shardLock, shardNil, shardCells, cell, loop, obj,
                 evictor, hub, msgs, nextEv, crashed, cfg, enricher, evCache>>

HandlerClose3(h) ==
  LET p == handler[h].ptr IN
  /\ Alive
  /\ handler[h].pc = "close3"
  /\ obj' = [obj EXCEPT ![p] = ClosePut(@)]
  /\ sess' = [sess EXCEPT ![obj[p].sess] = [@ EXCEPT !.puts = @ + 1]]
  /\ handler' = [handler EXCEPT ![h] = [@ EXCEPT !.pc = "unsub"]]
  /\ UNCHANGED <<now, shardLock, shardNil, shardCells, cell, loop,
                 evictor, hub, msgs, nextEv, crashed, cfg, enricher, evCache>>

\* An Unregister that reaps the Cell of a user whose last session left.
UnregisterReaps(userID, isEmpty) ==
  IF isEmpty THEN [shardCells EXCEPT ![userID] = 0] ELSE shardCells

\* Hub.Unregister drops what cell.Detach returns: the shard map is left as
\* it is (Unregister holds only the read lock, and releases it before Detach).
UnregisterCells(userID, isEmpty) == shardCells

\* DeliveryService.Unsubscribe = Hub.Unregister: Detach, and nothing else.
Unsubscribe(h) ==
  LET u == handler[h].user
      c == shardCells[u]
  IN
  /\ Alive
  /\ handler[h].pc = "unsub"
  /\ shardLock[getShard(u)] = "free"
  /\ IF c # 0
     THEN /\ CellMuFree(c)
          /\ cell' = [cell EXCEPT ![c] = Detach(@, handler[h].connID)]
          /\ shardCells' = UnregisterCells(u, cell'[c].sessions = {})
     ELSE UNCHANGED <<cell, shardCells>>
  /\ handler' = [handler EXCEPT ![h] = [@ EXCEPT !.pc = "done"]]
  /\ UNCHANGED <<now, shardLock, shardNil, loop, obj, sess,
                 evictor, hub, msgs, nextEv, crashed, cfg, enricher, evCache>>


\* ------------------------------------------------------------ Cell and loop
\* A mailbox send that always finds room.
MailboxUnbounded(c) == TRUE

\* case c.mailbox <- ev can proceed.
MailboxHasRoom(c) == Len(c.mailbox) < cfg.mailboxSize

\* Cell.Push: touch, then a non-blocking send to the mailbox; pushed is the
\* value it returns.
Push(c, ev) ==
  IF MailboxHasRoom(c)
  THEN touch([c EXCEPT !.mailbox = Append(@, ev), !.pushed = "true"])
  ELSE touch([c EXCEPT !.pushed = "false"])

\* Hub.Broadcast of a new event for userID.
Broadcast(userID, prio) ==
  LET ev == [id |-> nextEv, user |-> userID, prio |-> prio, msg |-> 0]
      c == shardCells[userID]
  IN
  /\ Alive
  /\ nextEv <= cfg.events /\ userID <= cfg.users
  /\ ShardFree(getShard(userID))
  /\ IF c # 0 THEN cell' = [cell EXCEPT ![c] = Push(@, ev)]
     ELSE UNCHANGED cell
  /\ nextEv' = nextEv + 1
  /\ UNCHANGED <<now, shardLock, shardNil, shardCells, loop, obj, sess,
                 handler, evictor, hub, msgs, crashed, cfg, enricher, evCache>>

\* Cell.loop, case <-c.doneCh.
LoopExit(c) ==
  /\ Alive
  /\ loop[c].pc = "wait"
  /\ cell[c].done
  /\ loop' = [loop EXCEPT ![c] = [@ EXCEPT !.pc = "exited"]]
  /\ UNCHANGED <<now, shardLock, shardNil, shardCells, cell, obj, sess,
                 handler, evictor, hub, msgs, nextEv, crashed, cfg, enricher, evCache>>

\* Cell.deliver begins: the read lock is taken and the session map ranged.
StartDeliver(c, l, batch) ==
  [l EXCEPT !.pc = "deliver", !.ev = Head(c.mailbox),
            !.pending = c.sessions, !.batch = batch]

\* Cell.loop, case ev := <-c.mailbox.
LoopTake(c) ==
  /\ Alive
  /\ loop[c].pc = "wait"
  /\ cell[c].mailbox # <<>>
  /\ loop' = [loop EXCEPT ![c] = StartDeliver(cell[c], @, 0)]
  /\ cell' = [cell EXCEPT ![c] = [@ EXCEPT !.mailbox = Tail(@)]]
  /\ UNCHANGED <<now, shardLock, shardNil, shardCells, obj, sess,
                 handler, evictor, hub, msgs, nextEv, crashed, cfg, enricher, evCache>>

\* Cell.deliver returns: every session was sent to, the read lock is released.
DeliverEnd(c) ==
  /\ Alive
  /\ loop[c].pc = "deliver"
  /\ loop[c].spc = "idle"
  /\ loop[c].pending = {}
  /\ loop' = [loop EXCEPT ![c] =
        [@ EXCEPT !.pc = "drain", !.ev = NoEv, !.ret = "none"]]
  /\ UNCHANGED <<now, shardLock, shardNil, shardCells, cell, obj, sess,
                 handler, evictor, hub, msgs, nextEv, crashed, cfg, enricher, evCache>>

\* The batch drain: up to DrainBatch more events without looking at doneCh.
DrainNext(c) ==
  /\ Alive
  /\ loop[c].pc = "drain"
  /\ IF loop[c].batch < DrainBatch /\ cell[c].mailbox # <<>>
     THEN /\ loop' = [loop EXCEPT ![c] =
                 StartDeliver(cell[c], @, loop[c].batch + 1)]
          /\ cell' = [cell EXCEPT ![c] = [@ EXCEPT !.mailbox = Tail(@)]]
     ELSE /\ loop' = [loop EXCEPT ![c] = [@ EXCEPT !.pc = "wait", !.batch = 0]]
          /\ UNCHANGED cell
  /\ UNCHANGED <<now, shardLock, shardNil, shardCells, obj, sess,
                 handler, evictor, hub, msgs, nextEv, crashed, cfg, enricher, evCache>>

\* ------------------------------------------------------------ connect.Send
\* conn.Send returned r to deliver.
SendReturn(l, r) ==
  [l EXCEPT !.pending = @ \ {l.sx}, !.spc = "idle", !.sx = NoConn, !.sch = 0,
            !.sctx = 0, !.sold = NoEv, !.sq = <<>>, !.ret = r]

\* atomic.AddUint64(&c.droppedCount, 1)
Dropped(o) == [o EXCEPT !.dropped = @ + 1]

\* The select of Send at its entry: c.ctx and c.sendCh are evaluated, and any
\* case that is ready may be taken; a send case on a closed channel panics.
SendStart(c) ==
  /\ Alive
  /\ loop[c].pc = "deliver"
  /\ loop[c].spc = "idle"
  /\ \E x \in loop[c].pending :
       LET p == x.ptr
           ch == sendCh(p)
           ctx == obj[p].sess
           l == [loop[c] EXCEPT !.sx = x]
       IN
       \/ /\ CtxDone(ctx)
          /\ loop' = [loop EXCEPT ![c] = SendReturn(l, "false")]
          /\ UNCHANGED <<sess, crashed>>
       \/ /\ HasRoom(ch)
          /\ sess' = [sess EXCEPT ![ch] = Enqueue(@, loop[c].ev)]
          /\ loop' = [loop EXCEPT ![c] = SendReturn(l, "true")]
          /\ UNCHANGED crashed
       \/ /\ ch # 0 /\ sess[ch].closed
          /\ crashed' = "send on closed channel"
          /\ UNCHANGED <<sess, loop>>
       \/ /\ ~CtxDone(ctx) /\ ~HasRoom(ch)
          /\ ch # 0 => ~sess[ch].closed
          /\ loop' = [loop EXCEPT ![c] =
                [l EXCEPT !.spc = "blocked", !.sch = ch, !.sctx = ctx]]
          /\ UNCHANGED <<sess, crashed>>
  /\ UNCHANGED <<now, shardLock, shardNil, shardCells, cell, obj,
                 handler, evictor, hub, msgs, nextEv, cfg, enricher, evCache>>

\* A Send parked in its select is woken by the session context.
SendAbort(c) ==
  /\ Alive
  /\ loop[c].spc = "blocked"
  /\ CtxDone(loop[c].sctx)
  /\ loop' = [loop EXCEPT ![c] = SendReturn(@, "false")]
  /\ UNCHANGED <<now, shardLock, shardNil, shardCells, cell, obj, sess,
                 handler, evictor, hub, msgs, nextEv, crashed, cfg, enricher, evCache>>

\* A Send parked in its select is woken by room in the queue (the context
\* has not woken it before).
SendEnqueue(c) ==
  /\ Alive
  /\ loop[c].spc = "blocked"
  /\ ~CtxDone(loop[c].sctx)
  /\ HasRoom(loop[c].sch)
  /\ sess' = [sess EXCEPT ![loop[c].sch] = Enqueue(@, loop[c].ev)]
  /\ loop' = [loop EXCEPT ![c] = SendReturn(@, "true")]
  /\ UNCHANGED <<now, shardLock, shardNil, shardCells, cell, obj,
                 handler, evictor, hub, msgs, nextEv, crashed, cfg, enricher, evCache>>

\* A handleBackpressure that sheds nothing.
ShedsNothing(ev) == FALSE

\* if ev.GetPriority() <= event.PriorityLow
Sheds(ev) == ev.prio <= PriorityLow

\* The 250 ms window ends with the queue still full: handleBackpressure, whose
\* first lines shed an event of priority <= Low.
SendTimeout(c) ==
  LET p == loop[c].sx.ptr IN
  /\ Alive
  /\ loop[c].spc = "blocked"
  /\ ~CtxDone(loop[c].sctx)
  /\ ~HasRoom(loop[c].sch)
  /\ IF Sheds(loop[c].ev)
     THEN /\ obj' = [obj EXCEPT ![p] = Dropped(@)]
          /\ loop' = [loop EXCEPT ![c] = SendReturn(@, "false")]
     ELSE /\ loop' = [loop EXCEPT ![c] = [@ EXCEPT !.spc = "bp"]]
          /\ UNCHANGED obj
  /\ UNCHANGED <<now, shardLock, shardNil, shardCells, cell, sess,
                 handler, evictor, hub, msgs, nextEv, crashed, cfg, enricher, evCache>>

\* handleBackpressure, select { case oldEv := <-c.sendCh; case <-time.After }.
\* A closed and empty channel yields a nil event, whose GetPriority panics.
BackpressurePop(c) ==
  LET p == loop[c].sx.ptr
      ch == sendCh(p)
  IN
  /\ Alive
  /\ loop[c].spc = "bp"
  /\ IF ch # 0 /\ sess[ch].buf # <<>>
     THEN /\ sess' = [sess EXCEPT ![ch] = [@ EXCEPT !.buf = Tail(@)]]
          /\ loop' = [loop EXCEPT ![c] =
                [@ EXCEPT !.spc = "put", !.sold = Head(sess[ch].buf),
                          !.sq = sess[ch].buf]]
          /\ UNCHANGED <<obj, crashed>>
     ELSE IF ch # 0 /\ sess[ch].closed
     THEN /\ crashed' = "nil pointer dereference"
          /\ UNCHANGED <<obj, sess, loop>>
     ELSE /\ obj' = [obj EXCEPT ![p] = Dropped(@)]
          /\ loop' = [loop EXCEPT ![c] = SendReturn(@, "false")]
          /\ UNCHANGED <<sess, crashed>>
  /\ UNCHANGED <<now, shardLock, shardNil, shardCells, cell,
                 handler, evictor, hub, msgs, nextEv, cfg, enricher, evCache>>

\* The comparison turned round.
DisplacesHigher(oldEv, ev) == oldEv.prio > ev.prio

\* oldEv.GetPriority() < ev.GetPriority()
Displaces(oldEv, ev) == oldEv.prio < ev.prio

\* handleBackpressure after the eviction: the incoming event replaces a lower
\* one with a blocking send (on a nil channel it blocks forever); an equal or
\* higher one is put back, best effort. A send on a closed channel panics.
BackpressurePut(c) ==
  LET p == loop[c].sx.ptr
      ch == sendCh(p)
      ev == loop[c].ev
      old == loop[c].sold
  IN
  /\ Alive
  /\ loop[c].spc = "put"
  /\ IF ch # 0 /\ sess[ch].closed
     THEN /\ crashed' = "send on closed channel"
          /\ UNCHANGED <<obj, sess, loop>>
     ELSE IF Displaces(old, ev)
     THEN IF ch = 0
          THEN /\ loop' = [loop EXCEPT ![c] = [@ EXCEPT !.spc = "stuck"]]
               /\ UNCHANGED <<obj, sess, crashed>>
          ELSE /\ HasRoom(ch)
               /\ sess' = [sess EXCEPT ![ch] = Enqueue(@, ev)]
               /\ loop' = [loop EXCEPT ![c] = SendReturn(@, "true")]
               /\ UNCHANGED <<obj, crashed>>
     ELSE /\ sess' = IF HasRoom(ch)
                     THEN [sess EXCEPT ![ch] = [@ EXCEPT !.buf = Append(@, old)]]
                     ELSE sess
          /\ obj' = [obj EXCEPT ![p] = Dropped(@)]
          /\ loop' = [loop EXCEPT ![c] = SendReturn(@, "false")]
          /\ UNCHANGED crashed
  /\ UNCHANGED <<now, shardLock, shardNil, shardCells, cell,
                 handler, evictor, hub, msgs, nextEv, cfg, enricher, evCache>>

\* ------------------------------------------------------------------- clock
Tick ==
  /\ Alive
  /\ now < cfg.time
  /\ now' = now + 1
  /\ UNCHANGED <<shardLock, shardNil, shardCells, cell, loop, obj, sess,
                 handler, evictor, hub, msgs, nextEv, crashed, cfg, enricher, evCache>>


\* ---------------------------------------------------------------- Cell.Stop
\* close(c.doneCh): a second close of the channel panics.
StopSignal(c) == [c EXCEPT !.done = TRUE, !.stops = @ + 1]

SessionPtrs(c) == {x.ptr : x \in c.sessions}

\* Cell.Stop can take c.mu and no conn.Close() of it has to wait for a
\* closeOnce that another caller is running.
CanStopSessions(c) ==
  /\ CellMuFree(c)
  /\ \A p \in SessionPtrs(cell[c]) : obj[p].once # "running"

\* The users whose cells a range over the shard's map visits.
ShardUsers(s) == {u \in Users : getShard(u) = s /\ shardCells[u] # 0}

\* for i := range shardCount: the shards that can hold a cell, in index
\* order (locking an always-empty shard changes nothing).
SweptShards == {getShard(u) : u \in 1..cfg.users}
FirstShard == CHOOSE s \in SweptShards : \A t \in SweptShards : s <= t
LaterShards(s) == {t \in SweptShards : t > s}
NextShard(s) == CHOOSE t \in LaterShards(s) : \A r \in LaterShards(s) : t <= r

\* ------------------------------------------------------------------ evictor
\* runEvictor, case <-ticker.C: performEviction starts with shard 0.
EvictTick ==
  /\ Alive
  /\ evictor.pc = "wait"
  /\ evictor' = [evictor EXCEPT !.pc = "lock", !.shard = FirstShard]
  /\ UNCHANGED <<now, shardLock, shardNil, shardCells, cell, loop, obj, sess,
                 handler, hub, msgs, nextEv, crashed, cfg, enricher, evCache>>

\* runEvictor, case <-h.stopCh.
EvictExit ==
  /\ Alive
  /\ evictor.pc = "wait"
  /\ hub.stopped
  /\ evictor' = [evictor EXCEPT !.pc = "exited"]
  /\ UNCHANGED <<now, shardLock, shardNil, shardCells, cell, loop, obj, sess,
                 handler, hub, msgs, nextEv, crashed, cfg, enricher, evCache>>

\* performEviction: s.Lock() and the range over s.cells begins.
EvictLock ==
  LET s == evictor.shard IN
  /\ Alive
  /\ evictor.pc = "lock"
  /\ ShardFree(s)
  /\ shardLock' = [shardLock EXCEPT ![s] = "evictor"]
  /\ evictor' = [evictor EXCEPT !.pc = "scan", !.todo = ShardUsers(s)]
  /\ UNCHANGED <<now, shardNil, shardCells, cell, loop, obj, sess,
                 handler, hub, msgs, nextEv, crashed, cfg, enricher, evCache>>

\* performEviction: cell.IsIdle(idleTimeout), and on true the first statement
\* of cell.Stop, close(c.doneCh).
EvictCheck ==
  /\ Alive
  /\ evictor.pc = "scan"
  /\ \E u \in evictor.todo :
       LET c == shardCells[u] IN
       IF IsIdle(cell[c], cfg.idleTimeout)
       THEN IF cell[c].done
            THEN /\ crashed' = "close of closed channel"
                 /\ UNCHANGED <<cell, evictor>>
            ELSE /\ cell' = [cell EXCEPT ![c] = StopSignal(@)]
                 /\ evictor' = [evictor EXCEPT !.pc = "stop", !.cur = u]
                 /\ UNCHANGED crashed
       ELSE /\ evictor' = [evictor EXCEPT !.todo = @ \ {u}]
            /\ UNCHANGED <<cell, crashed>>
  /\ UNCHANGED <<now, shardLock, shardNil, shardCells, loop, obj, sess,
                 handler, hub, msgs, nextEv, cfg, enricher, evCache>>

\* An eviction that leaves the stopped Cell in the map.
KeepsCell(cells, id) == cells

\* delete(s.cells, id)
delete(cells, id) == [cells EXCEPT ![id] = 0]

\* The rest of cell.Stop under c.mu (every attached Connector is closed and
\* removed), then delete(s.cells, id).
EvictStop ==
  LET u == evictor.cur
      c == shardCells[u]
  IN
  /\ Alive
  /\ evictor.pc = "stop"
  /\ CanStopSessions(c)
  /\ obj' = CloseAllObj(SessionPtrs(cell[c]))
  /\ sess' = CloseAllSess(SessionPtrs(cell[c]))
  /\ cell' = [cell EXCEPT ![c] = [@ EXCEPT !.sessions = {}]]
  /\ shardCells' = delete(shardCells, u)
  /\ evictor' = [evictor EXCEPT !.pc = "scan", !.todo = @ \ {u}, !.cur = 0]
  /\ UNCHANGED <<now, shardLock, shardNil, loop, handler, hub, msgs, nextEv,
                 crashed, cfg, enricher, evCache>>

\* performEviction: s.Unlock(), and the next shard or the end of the sweep.
EvictUnlock ==
  LET s == evictor.shard IN
  /\ Alive
  /\ evictor.pc = "scan"
  /\ evictor.todo = {}
  /\ shardLock' = [shardLock EXCEPT ![s] = "free"]
  /\ evictor' = IF LaterShards(s) = {}
                THEN [evictor EXCEPT !.pc = "wait", !.shard = 0]
                ELSE [evictor EXCEPT !.pc = "lock", !.shard = NextShard(s)]
  /\ UNCHANGED <<now, shardNil, shardCells, cell, loop, obj, sess,
                 handler, hub, msgs, nextEv, crashed, cfg, enricher, evCache>>

\* ----------------------------------------------------------------- Shutdown
\* A Shutdown with no closeOnce.
HubOnceAlways(h) == TRUE

\* h.closeOnce.Do lets the caller in.
HubOnceEnters(h) == ~h.once

\* Hub.Shutdown is called: the first caller enters closeOnce.Do and closes
\* stopCh (a second close of it panics); a later caller returns once the
\* first is through.
Shutdown ==
  /\ Alive
  /\ hub.pc \in {"idle", "done"}
  /\ hub.calls < ShutdownCalls
  /\ IF HubOnceEnters(hub)
     THEN /\ hub' = [hub EXCEPT !.once = TRUE, !.stopped = TRUE, !.pc = "lock",
                               !.shard = FirstShard, !.calls = @ + 1,
                               !.closes = @ + 1]
          /\ crashed' = IF hub.stopped THEN "close of closed channel"
                        ELSE crashed
     ELSE /\ hub' = [hub EXCEPT !.calls = @ + 1]
          /\ UNCHANGED crashed
  /\ UNCHANGED <<now, shardLock, shardNil, shardCells, cell, loop, obj, sess,
                 handler, evictor, msgs, nextEv, cfg, enricher, evCache>>

ShutdownLock ==
  LET s == hub.shard IN
  /\ Alive
  /\ hub.pc = "lock"
  /\ ShardFree(s)
  /\ shardLock' = [shardLock EXCEPT ![s] = "shutdown"]
  /\ hub' = [hub EXCEPT !.pc = "scan", !.todo = ShardUsers(s)]
  /\ UNCHANGED <<now, shardNil, shardCells, cell, loop, obj, sess,
                 handler, evictor, msgs, nextEv, crashed, cfg, enricher, evCache>>

\* cell.Stop of the next cell of the map: close(c.doneCh).
ShutdownSignal ==
  /\ Alive
  /\ hub.pc = "scan"
  /\ \E u \in hub.todo :
       LET c == shardCells[u] IN
       IF cell[c].done
       THEN /\ crashed' = "close of closed channel"
            /\ UNCHANGED <<cell, hub>>
       ELSE /\ cell' = [cell EXCEPT ![c] = StopSignal(@)]
            /\ hub' = [hub EXCEPT !.pc = "stop", !.cur = u]
            /\ UNCHANGED crashed
  /\ UNCHANGED <<now, shardLock, shardNil, shardCells, loop, obj, sess,
                 handler, evictor, msgs, nextEv, cfg, enricher, evCache>>

\* The rest of that cell.Stop under c.mu.
ShutdownStop ==
  LET u == hub.cur
      c == shardCells[u]
  IN
  /\ Alive
  /\ hub.pc = "stop"
  /\ CanStopSessions(c)
  /\ obj' = CloseAllObj(SessionPtrs(cell[c]))
  /\ sess' = CloseAllSess(SessionPtrs(cell[c]))
  /\ cell' = [cell EXCEPT ![c] = [@ EXCEPT !.sessions = {}]]
  /\ hub' = [hub EXCEPT !.pc = "scan", !.todo = @ \ {u}, !.cur = 0]
  /\ UNCHANGED <<now, shardLock, shardNil, shardCells, loop, handler, evictor,
                 msgs, nextEv, crashed, cfg, enricher, evCache>>

\* s.cells = nil; s.Unlock(), and the next shard or the end of Shutdown.
ShutdownUnlock ==
  LET s == hub.shard IN
  /\ Alive
  /\ hub.pc = "scan"
  /\ hub.todo = {}
  /\ shardCells' = [u \in Users |-> IF getShard(u) = s THEN 0
                                    ELSE shardCells[u]]
  /\ shardNil' = [shardNil EXCEPT ![s] = TRUE]
  /\ shardLock' = [shardLock EXCEPT ![s] = "free"]
  /\ hub' = IF LaterShards(s) = {}
            THEN [hub EXCEPT !.pc = "done", !.shard = 0]
            ELSE [hub EXCEPT !.pc = "lock", !.shard = NextShard(s)]
  /\ UNCHANGED <<now, cell, loop, obj, sess, handler, evictor, msgs, nextEv,
                 crashed, cfg, enricher, evCache>>

\* ------------------------------------------------------------------- binder
\* A routing key split on ".": a token is the user whose UUID it spells, or
\* 0 when uuid.Parse rejects it; the empty key has no token that parses.
RoutingKeys == UNION {[1..n -> {0} \cup Users] : n \in 0..KeyTokens}

\* resolveUserID, the loop: the first token that parses, or none.
RECURSIVE FirstUuid(_)
FirstUuid(rk) ==
  IF rk = <<>> THEN 0
  ELSE IF Head(rk) # 0 THEN Head(rk) ELSE FirstUuid(Tail(rk))

\* resolveUserID: "x-routing-key", and "routing_key" only when that is empty.
resolveUserID(xrk, rk) == FirstUuid(IF xrk = <<>> THEN rk ELSE xrk)

\* Some token of the key parses as a UUID.
HasUuid(rk) == \E i \in 1..Len(rk) : rk[i] # 0

\* The broker hands a message to the consumer with its two routing metadata
\* entries and a payload that decodes or not. The message does not change
\* afterwards: target is what resolveUserID yields for it in every
\* invocation, uuids whether any token of its metadata parses.
BusDeliver(m, xrk, rk, ok) ==
  /\ Alive
  /\ m <= cfg.msgs
  /\ \A i \in 1..Len(xrk) : xrk[i] <= cfg.users
  /\ \A i \in 1..Len(rk) : rk[i] <= cfg.users
  /\ msgs[m].st = "none"
  /\ msgs' = [msgs EXCEPT ![m] =
        [st |-> "pending", target |-> resolveUserID(xrk, rk),
         uuids |-> HasUuid(xrk) \/ HasUuid(rk), ok |-> ok, tries |-> 0,
         dec |-> FALSE, fn |-> FALSE, bc |-> FALSE, pub |-> FALSE,
         evt |-> "nil", key |-> "", res |-> "none", err |-> "none"]]
  /\ UNCHANGED <<now, shardLock, shardNil, shardCells, cell, loop, obj, sess,
                 handler, evictor, hub, nextEv, crashed, cfg, enricher, evCache>>

\* The handler chain above Bind: PoisonQueue turns an error into an ack when
\* it can publish the message to the poison topic; when it cannot, Retry calls
\* the handler again, MaxRetries times at most.
AfterError(mm, poisoned) ==
  IF poisoned THEN [mm EXCEPT !.st = "poisoned"]
  ELSE IF mm.tries < MaxRetries THEN [mm EXCEPT !.tries = @ + 1]
  ELSE [mm EXCEPT !.st = "nacked"]

\* A Bind that takes every payload for well-formed.
DecodesAnything(mm) == TRUE

\* json.Unmarshal(msg.Payload, payload) succeeds.
Decodes(mm) == mm.ok

\* What a DomainHandler returns with a nil error: no event (OnMessageDeletedV1,
\* OnStatusChangedV1), a MessageV1Event (OnMessageCreatedV1), a SystemEvent.
EventTypes == {"nil", "message", "system"}

\* GetRoutingKey of an event: the topic of a MessageV1Event, "" for a
\* SystemEvent.
GetRoutingKey(evt) ==
  IF evt = "message" THEN "im_delivery.v1.message.created" ELSE ""

\* GetPriority of an event of the type.
GetPriority(evt) == IF evt = "message" THEN PriorityHigh ELSE PriorityNormal

\* ev.(event.Exportable): the type has a GetRoutingKey method, which both
\* event types have.
Exportable(evt) == evt \in {"message", "system"}

\* A binder that drops the error of the dispatcher.
PublishIgnored(published) == "nil"

\* h.dispatcher.Publish fails: Bind returns GLOBAL_DISPATCH_FAILED.
PublishError(published) == IF published THEN "nil" ELSE "publish"

\* One invocation of the function Bind returns: resolveUserID, the locality
\* filter, the decoding, the domain handler (it fails, as OnMessageCreatedV1
\* does when the peers are not enriched, or returns evt), Hub.Broadcast with
\* its own lookup, and for an Exportable event the publication to the broker
\* (it succeeds or not). dec, fn, bc and pub record that a step was reached,
\* key the routing key of the last publication, res how the publication of
\* the last invocation went, err what the last invocation returned.
Bind(m, enriched, evt, published, poisoned) ==
  LET mm == msgs[m]
      u == mm.target
      ev == [id |-> nextEv, user |-> u, prio |-> GetPriority(evt), msg |-> m]
  IN
  /\ Alive
  /\ mm.st = "pending"
  /\ IF u = 0
     THEN /\ msgs' = [msgs EXCEPT ![m] =
                [mm EXCEPT !.st = "acked", !.err = "nil", !.res = "none"]]
          /\ UNCHANGED <<cell, nextEv>>
     ELSE /\ ShardFree(getShard(u))
          /\ IF ~IsConnected(u)
             THEN /\ msgs' = [msgs EXCEPT ![m] =
                        [mm EXCEPT !.st = "acked", !.err = "nil", !.res = "none"]]
                  /\ UNCHANGED <<cell, nextEv>>
             ELSE IF ~Decodes(mm)
             THEN /\ msgs' = [msgs EXCEPT ![m] =
                        [mm EXCEPT !.st = "acked", !.err = "nil", !.res = "none",
                                   !.dec = TRUE]]
                  /\ UNCHANGED <<cell, nextEv>>
             ELSE IF ~enriched
             THEN /\ msgs' = [msgs EXCEPT ![m] =
                        AfterError([mm EXCEPT !.dec = TRUE, !.fn = TRUE,
                                              !.err = "handler",
                                              !.res = "none"],
                                   poisoned)]
                  /\ UNCHANGED <<cell, nextEv>>
             ELSE IF evt = "nil"
             THEN /\ msgs' = [msgs EXCEPT ![m] =
                        [mm EXCEPT !.st = "acked", !.err = "nil", !.res = "none",
                                   !.dec = TRUE, !.fn = TRUE]]
                  /\ UNCHANGED <<cell, nextEv>>
             ELSE /\ nextEv <= cfg.events
                  /\ nextEv' = nextEv + 1
                  /\ cell' = IF shardCells[u] # 0
                             THEN [cell EXCEPT ![shardCells[u]] = Push(@, ev)]
                             ELSE cell
                  /\ msgs' = [msgs EXCEPT ![m] =
                        LET sent == [mm EXCEPT !.dec = TRUE, !.fn = TRUE,
                                               !.bc = TRUE, !.evt = evt]
                            tried == [sent EXCEPT !.pub = TRUE,
                                          !.key = GetRoutingKey(evt)]
                            out == [tried EXCEPT
                                      !.res = IF published THEN "ok"
                                              ELSE "failed",
                                      !.err = PublishError(published)]
                        IN IF ~Exportable(evt)
                           THEN [sent EXCEPT !.st = "acked", !.err = "nil",
                                             !.res = "none"]
                           ELSE IF out.err = "nil"
                           THEN [out EXCEPT !.st = "acked"]
                           ELSE AfterError(out, poisoned)]
  /\ UNCHANGED <<now, shardLock, shardNil, shardCells, loop, obj, sess,
                 handler, evictor, hub, crashed, cfg, enricher, evCache>>

\* ------------------------------------------------------------ peer enricher
\* model.Peer as the enricher reads and writes it: ID (0 is uuid.Nil), Type
\* and Name (Sub and Issuer are written together with Name).
PeerTypes == {"user", "group", "channel", "other"}
Peers == [id : {0} \cup PeerIds, type : PeerTypes, name : {"", "given"}]

\* What contacts.SearchContact does: an RPC error, no contact, a contact.
Lookups == {"error", "empty", "found"}

\* An enricher that hands the RPC error on.
LookupPropagates(peer) == [peer |-> peer, err |-> "search"]

\* enrichFromContacts, err != nil: the original peer and no error.
LookupFailed(peer) == [peer |-> peer, err |-> "nil"]

\* enrichFromContacts
enrichFromContacts(peer, lookup) ==
  IF lookup = "error" THEN LookupFailed(peer)
  ELSE IF lookup = "empty" THEN [peer |-> peer, err |-> "nil"]
  ELSE [peer |-> [peer EXCEPT !.name = "contact"], err |-> "nil"]

\* mockEnrich
mockEnrich(peer) ==
  IF peer.name = "" THEN [peer EXCEPT !.name = "placeholder"] ELSE peer

\* PeerEnricher.ResolvePeer on a cache: the peer and the error it returns,
\* the cache it leaves, and what its remote lookup did ("none": no lookup).
ResolveOne(cache, peer, lookup) ==
  IF peer.id = 0
  THEN [peer |-> peer, err |-> "nil", cache |-> cache, looked |-> "none"]
  ELSE IF cache[peer.id] # NoPeer
  THEN [peer |-> cache[peer.id], err |-> "nil", cache |-> cache,
        looked |-> "none"]
  ELSE LET r == IF peer.type = "user" THEN enrichFromContacts(peer, lookup)
                ELSE IF peer.type \in {"group", "channel"}
                THEN [peer |-> mockEnrich(peer), err |-> "nil"]
                ELSE [peer |-> peer, err |-> "nil"]
       IN [peer |-> r.peer, err |-> r.err,
           cache |-> IF r.err = "nil" THEN [cache EXCEPT ![peer.id] = r.peer]
                     ELSE cache,
           looked |-> IF peer.type = "user" THEN lookup ELSE "none"]

\* A call of PeerEnricher.ResolvePeer. The outcome of the lookup is drawn
\* only when the call makes one.
ResolvePeer(peer, lookup) ==
  LET r == ResolveOne(enricher.cache, peer, lookup) IN
  /\ r.looked = "none" => lookup = "empty"
  /\ enricher' = [cache |-> r.cache, op |-> "ResolvePeer", in |-> <<peer>>,
                  looked |-> <<r.looked>>, out |-> <<r.peer>>, err |-> r.err]
  /\ UNCHANGED <<now, shardLock, shardNil, shardCells, cell, loop, obj, sess,
                 handler, evictor, hub, msgs, nextEv, crashed, cfg, evCache>>

\* A call of PeerEnricher.ResolvePeers: the two ResolvePeer run in parallel
\* on the shared cache, one after the other in either order, or both reading
\* the cache before either writes it (the orders differ only for two peers
\* of one identity).
ResolvePeers(from, to, lf, lt, order) ==
  LET c == enricher.cache
      rf == IF order = "to" THEN ResolveOne(ResolveOne(c, to, lt).cache, from, lf)
            ELSE ResolveOne(c, from, lf)
      rt == IF order = "from" THEN ResolveOne(rf.cache, to, lt)
            ELSE ResolveOne(c, to, lt)
      last == IF order \in {"from", "both"} THEN rt ELSE rf
      first == IF order \in {"from", "both"} THEN rf ELSE rt
      failed == rf.err # "nil" \/ rt.err # "nil"
  IN
  /\ order = "from" \/ (from.id = to.id /\ from.id # 0)
  /\ rf.looked = "none" => lf = "empty"
  /\ rt.looked = "none" => lt = "empty"
  /\ enricher' = [cache |-> [i \in PeerIds |->
                                IF last.cache[i] # c[i] THEN last.cache[i]
                                ELSE first.cache[i]],
                  op |-> "ResolvePeers", in |-> <<from, to>>,
                  looked |-> <<rf.looked, rt.looked>>,
                  out |-> IF failed THEN <<from, to>>
                          ELSE <<rf.peer, rt.peer>>,
                  err |-> IF failed THEN "parallel enrichment failed"
                          ELSE "nil"]
  /\ UNCHANGED <<now, shardLock, shardNil, shardCells, cell, loop, obj, sess,
                 handler, evictor, hub, msgs, nextEv, crashed, cfg, evCache>>

\* ----------------------------------------------------------- specification
\* The steps of a transport task from Subscribe to Unsubscribe.
HandlerStep(h) ==
  \/ Register(h)
  \/ RegisterAttach(h)
  \/ EnterSelect(h)
  \/ SelectExit(h)
  \/ TransmitFail(h)
  \/ Unsubscribe(h)

\* The steps of a long-poll request outside its reads and its Close.
PollStep(h) ==
  \/ Register(h)
  \/ RegisterAttach(h)
  \/ EnterSelect(h)
  \/ SelectExit(h)
  \/ Unsubscribe(h)

\* The long-poll handler's deferred conn.Close().
HandlerClose(h) ==
  \/ HandlerClose1(h)
  \/ HandlerClose2(h)
  \/ HandlerClose3(h)

\* The steps of a Cell's loop goroutine outside conn.Send.
LoopStep(c) ==
  \/ LoopExit(c)
  \/ LoopTake(c)
  \/ DeliverEnd(c)
  \/ DrainNext(c)

\* The steps of one conn.Send.
SendStep(c) ==
  \/ SendStart(c)
  \/ SendAbort(c)
  \/ SendEnqueue(c)
  \/ SendTimeout(c)
  \/ BackpressurePop(c)
  \/ BackpressurePut(c)

EvictorStep ==
  \/ EvictTick
  \/ EvictExit
  \/ EvictLock
  \/ EvictCheck
  \/ EvictStop
  \/ EvictUnlock

ShutdownStep ==
  \/ Shutdown
  \/ ShutdownLock
  \/ ShutdownSignal
  \/ ShutdownStop
  \/ ShutdownUnlock

\* The registry: sessions of stream handlers come and go and events are
\* pushed while the evictor sweeps, time passes and the Hub is shut down.
Next ==
  \/ \E h \in Handlers, u \in Users : NewConnector(h, u, "stream")
  \/ \E h \in Handlers : HandlerStep(h)
  \/ \E u \in Users : Broadcast(u, PriorityNormal)
  \/ \E c \in CellIds : LoopExit(c)
  \/ EvictorStep
  \/ ShutdownStep
  \/ Tick

Spec == Init /\ [][Next]_vars

\* The same tasks under a clock finer than the second, with an idleTimeout
\* of one tick (half a second).
IdleCfg == [HubCfg EXCEPT !.tps = TicksPerSecond, !.time = IdleTime]
InitIdle == InitWith(IdleCfg)
SpecIdle == InitIdle /\ [][Next]_vars

\* One session from Subscribe to the end of its handler: events of every
\* priority are broadcast and delivered through Send and its backpressure
\* while the consumer reads, the transport context is cancelled, the long-poll
\* handler closes the Connector and the Hub is shut down.
NextConn ==
  \/ \E h \in Handlers, u \in Users, k \in Kinds : NewConnector(h, u, k)
  \/ \E h \in Handlers : HandlerStep(h)
  \/ \E h \in Handlers : HandlerClose(h)
  \/ \E h \in Handlers : Recv(h) \/ Drain(h) \/ DrainEnd(h)
  \/ \E h \in Handlers : CancelTransport(h)
  \/ \E u \in Users, p \in Priorities : Broadcast(u, p)
  \/ \E c \in CellIds : LoopStep(c)
  \/ \E c \in CellIds : SendStep(c)
  \/ ShutdownStep

SpecConn == InitConn /\ [][NextConn]_vars

\* Long-poll requests of several users, one after the other or together:
\* each closes its Connector and then unsubscribes, and connectPool hands the
\* closed objects out again while events are broadcast and delivered.
NextPool ==
  \/ \E h \in Handlers, u \in Users : NewConnector(h, u, "poll")
  \/ \E h \in Handlers : PollStep(h)
  \/ \E h \in Handlers : HandlerClose(h)
  \/ \E h \in Handlers : Recv(h) \/ Drain(h) \/ DrainEnd(h)
  \/ \E u \in Users : Broadcast(u, PriorityHigh)
  \/ \E c \in CellIds : LoopTake(c) \/ DeliverEnd(c) \/ DrainNext(c)
  \/ \E c \in CellIds : SendStep(c)

SpecPool == InitPool /\ [][NextPool]_vars

\* The same long-poll sessions with a Shutdown that stops their Cells.
NextStale ==
  \/ NextPool
  \/ ShutdownStep

StaleCfg == [PoolCfg EXCEPT !.users = StaleUsers, !.events = StaleEvents]
InitStale == InitWith(StaleCfg)
SpecStale == InitStale /\ [][NextStale]_vars

\* The inbound pipeline: a bus message goes through Bind under the retry and
\* poison-queue middleware while a stream session of the user is served.
NextBind ==
  \/ \E h \in Handlers, u \in Users : NewConnector(h, u, "stream")
  \/ \E h \in Handlers : HandlerStep(h)
  \/ \E h \in Handlers : Recv(h)
  \/ \E h \in Handlers : CancelTransport(h)
  \/ \E m \in Msgs, xrk, rk \in RoutingKeys, ok \in BOOLEAN :
       BusDeliver(m, xrk, rk, ok)
  \/ \E m \in Msgs, enriched, published, poisoned \in BOOLEAN,
        evt \in EventTypes :
       Bind(m, enriched, evt, published, poisoned)
  \/ \E c \in CellIds : LoopTake(c) \/ DeliverEnd(c) \/ DrainNext(c)
  \/ \E c \in CellIds : SendStep(c)

SpecBind == InitBind /\ [][NextBind]_vars

\* Two gRPC sessions of one user with the marshalling of what they receive.
MarshalCfg == [bufferSize |-> MarshalBuffer, mailboxSize |-> MarshalMailbox,
               idleTimeout |-> IdleTimeout, events |-> MarshalEvents,
               time |-> 0, users |-> MarshalUsers, handlers |-> NumHandlers,
               msgs |-> 0, tps |-> 1]
InitMarshal == InitWith(MarshalCfg)
NextMarshal ==
  \/ \E h \in Handlers, u \in Users : NewConnector(h, u, "stream")
  \/ \E h \in Handlers : Register(h) \/ RegisterAttach(h)
  \/ \E h \in Handlers : Recv(h)
  \/ \E h \in Handlers : MarshalCheck(h)
  \/ \E h \in Handlers : MarshalSet(h)
  \/ \E h \in Handlers : Transmitted(h)
  \/ \E h \in Handlers : CancelTransport(h)
  \/ \E h \in Handlers : SelectExit(h) \/ TransmitFail(h) \/ Unsubscribe(h)
  \/ \E u \in Users : Broadcast(u, PriorityHigh)
  \/ \E c \in CellIds : LoopTake(c) \/ DeliverEnd(c) \/ DrainNext(c)
  \/ \E c \in CellIds : SendStep(c)

SpecMarshal == InitMarshal /\ [][NextMarshal]_vars

\* The peer enricher alone, under every sequence of calls.
InitEnrich == InitWith(BindCfg)
NextEnrich ==
  \/ \E peer \in Peers, lookup \in Lookups : ResolvePeer(peer, lookup)
  \/ \E from, to \in Peers, lf, lt \in Lookups,
        order \in {"from", "to", "both", "both-to-first"} :
       ResolvePeers(from, to, lf, lt, order)

SpecEnrich == InitEnrich /\ [][NextEnrich]_vars

\* ------------------------------------------------------------------ registry
\* The Cells the Hub holds for userID: created for it, stored in its shard's
\* map, and not stopped.
HubCells(userID) ==
  {c \in CellIds : cell[c].user = userID /\ cell[c].stored /\ ~cell[c].done}

\* C1: at every instant the Hub holds at most one Cell for any userID, under
\* every interleaving of Register, Unregister, Broadcast, evictor sweeps and
\* Shutdown.
C1_OneCellPerUser == \A u \in Users : Cardinality(HubCells(u)) <= 1

\* A session of a user is attached to the Cell that Register created after
\* the user's earlier Cell was evicted.
C1_Witness ==
  \E c, d \in CellIds :
    /\ cell[d].user = cell[c].user /\ cell[d].stored /\ cell[d].done
    /\ c \in HubCells(cell[c].user)
    /\ cell[c].sessions # {}
    /\ ~hub.once

\* C2: at the moment Hub.Register(conn) returns, Shutdown not called,
\* Hub.IsConnected(conn.userID) is true, in every interleaving of Register
\* with an evictor sweep.
C2_ConnectedOnReturn ==
  [][\A h \in Handlers :
       (handler[h].pc = "attach" /\ handler'[h].pc = "run" /\ ~hub'.once)
         => IsConnected(handler[h].user)']_vars

\* C16: once Hub.Shutdown has returned, every Connector whose Register has
\* returned, also one whose Register ran concurrently with Shutdown, is
\* closed: no serving session is left with an open queue that no Cell.Stop
\* can reach any more.
C16_ClosedAfterShutdown ==
  hub.pc = "done"
    => \A h \in Handlers :
         handler[h].pc \in {"run", "sel"} => sess[h].closed

\* C17: after Hub.Shutdown the delivery loop of every Cell the Hub ever
\* created terminates: when Shutdown has returned and the process lives, the
\* done signal of every Cell whose loop was started is closed (a loop leaves
\* only through it).
C17_LoopsSignalled ==
  (hub.pc = "done" /\ Alive)
    => \A c \in CellIds : loop[c].pc # "none" => cell[c].done

\* C19: an evictor sweep never passes over an idle Cell: when the sweep is
\* through with a user whose Cell has no sessions and was last touched more
\* than idleTimeout ago, the Cell is stopped and gone from its shard map, and
\* IsConnected(user) is false.
C19_IdleCellEvicted ==
  [][\A u \in Users :
       (/\ evictor.pc \in {"scan", "stop"}
        /\ u \in evictor.todo /\ u \notin evictor'.todo
        /\ cell[shardCells[u]].sessions = {}
        /\ now - cell[shardCells[u]].last > cfg.idleTimeout)
       => /\ shardCells'[u] = 0
          /\ ~IsConnected(u)'
          /\ cell'[shardCells[u]].done
          /\ cell'[shardCells[u]].stops = 1]_vars

\* The evictor has stopped and removed a Cell whose only session had been
\* unsubscribed before (Stop found no session to close), and its user is no
\* longer connected.
C19_Witness ==
  \E c \in CellIds, h \in Handlers :
    /\ cell[c].stored /\ cell[c].done /\ cell[c].stops = 1
    /\ cell[c].sessions = {}
    /\ ~IsConnected(cell[c].user)
    /\ handler[h].pc = "done" /\ handler[h].user = cell[c].user
    /\ handler[h].cell = c /\ sess[h].calls = 0
    /\ now - cell[c].last > cfg.idleTimeout
    /\ evictor.pc = "scan" /\ evictor.todo = {}
    /\ ~hub.once

\* C20: the locality filter: when the target user of a bus message has no
\* Cell on this node, the binder acknowledges the message and does nothing
\* else: no decoding, no domain handler, no Broadcast, no publication.
C20_LocalityFilter ==
  [][\A m \in Msgs :
       (/\ msgs[m].st = "pending" /\ msgs'[m] # msgs[m]
        /\ msgs[m].target # 0
        /\ shardCells[msgs[m].target] = 0)
       => /\ msgs'[m] = [msgs[m] EXCEPT !.st = "acked", !.err = "nil",
                                         !.res = "none"]
          /\ cell' = cell
          /\ nextEv' = nextEv]_vars

\* A decodable message for a user with no Cell was acknowledged on its first
\* delivery with no step behind the filter reached.
C20_Witness ==
  \E m \in Msgs :
    /\ msgs[m].st = "acked" /\ msgs[m].target # 0 /\ msgs[m].ok
    /\ ~msgs[m].dec /\ ~msgs[m].fn /\ ~msgs[m].bc /\ ~msgs[m].pub
    /\ msgs[m].tries = 0
    /\ shardCells[msgs[m].target] = 0

\* C21: poison-pill protection: a message whose routing metadata has no token
\* that parses as a UUID, or whose payload does not decode, is acknowledged
\* by the binder (never an error, so no retry) and causes no Broadcast and no
\* publication.
C21_PoisonPill ==
  [][\A m \in Msgs :
       (/\ msgs[m].st = "pending" /\ msgs'[m] # msgs[m]
        /\ (~msgs[m].uuids \/ ~msgs[m].ok))
       => /\ msgs'[m].st = "acked" /\ msgs'[m].tries = 0
          /\ ~msgs'[m].fn /\ ~msgs'[m].bc /\ ~msgs'[m].pub
          /\ cell' = cell
          /\ nextEv' = nextEv]_vars

\* An undecodable message for a connected user reached the decoding and was
\* acknowledged there.
C21_Witness ==
  \E m \in Msgs :
    /\ msgs[m].st = "acked" /\ ~msgs[m].ok /\ msgs[m].dec
    /\ msgs[m].target # 0 /\ IsConnected(msgs[m].target)
    /\ ~msgs[m].bc /\ ~msgs[m].pub

\* C22: the binder publishes an event back to the bus only when the event
\* has a non-empty routing key: an event whose routing key is "" is
\* delivered locally and never published.
C22_PublishedHasKey ==
  \A m \in Msgs : msgs[m].pub => msgs[m].key # ""

\* C23: the binder returns an error for a message whose publication back to
\* the bus failed, so that the message is not acknowledged by the binder; in
\* every other path that ends without an error of the domain handler it
\* returns nil and the message is acknowledged.
C23_ErrorOnPublishFailure ==
  \A m \in Msgs :
    /\ msgs[m].res = "failed" => msgs[m].err = "publish"
    /\ msgs[m].err = "publish" => msgs[m].res = "failed" /\ msgs[m].st # "acked"
    /\ (msgs[m].err \notin {"none", "handler"} /\ msgs[m].res # "failed")
         => msgs[m].err = "nil" /\ msgs[m].st = "acked"

\* A message went through Broadcast, its publication failed and the poison
\* queue was out of reach each time, until the retries were used up.
C23_Witness ==
  \E m \in Msgs :
    /\ msgs[m].res = "failed" /\ msgs[m].err = "publish"
    /\ msgs[m].bc /\ msgs[m].pub /\ msgs[m].st = "nacked"

\* C24: when the remote contact lookup fails, ResolvePeer returns the peer it
\* was given, unchanged, with a nil error; and ResolvePeers returns no error
\* (a lookup failure included) and the given peer for each failed lookup.
C24_LookupFailureIsSilent ==
  /\ enricher.err \in {"none", "nil"}
  /\ \A i \in 1..Len(enricher.in) :
       enricher.looked[i] = "error" => enricher.out[i] = enricher.in[i]

\* ResolvePeers was called with two user peers, the lookup of the first
\* failed and that of the second found a contact.
C24_Witness ==
  /\ enricher.op = "ResolvePeers"
  /\ enricher.looked = <<"error", "found">>
  /\ enricher.out[1] = enricher.in[1]
  /\ enricher.out[2].name = "contact"
  /\ enricher.err = "nil"

\* C25: a transport task that waits on Recv() of a Connector that has been
\* closed observes the end of the stream: the channel it waits on is the
\* closed channel of its own session, whether it began to wait before the
\* Close or after it.
C25_RecvObservesClose ==
  \A h \in Handlers :
    (/\ handler[h].pc = "sel" /\ handler[h].kind = "stream"
     /\ handler[h].connID # 0
     /\ sess[handler[h].connID].closed)
    => handler[h].hch = handler[h].connID

\* C26: multi-session fan-out: of every event the Cell loop delivers, each
\* attached Connector gets exactly one copy; in particular no session has
\* the same event enqueued twice.
C26_OneCopyEach ==
  \A h \in Handlers : \A i, j \in 1..Len(sess[h].enq) :
    sess[h].enq[i].id = sess[h].enq[j].id => i = j

\* C27: the Cell loop does not hold the lock of the session set while a
\* Connector.Send waits on a full queue, so that Attach and Detach on the
\* Cell can complete meanwhile.
C27_SendOutsideLock ==
  \A c \in CellIds : loop[c].spc = "blocked" => CellMuFree(c)

\* C28: an evictor sweep stops only idle Cells: when Stop runs on a Cell
\* during a sweep the Cell has no attached session, so the sweep closes no
\* Connector, in every interleaving with Register and Attach.
C28_EvictorClosesNothing ==
  [][(evictor.pc = "stop" /\ evictor'.pc # "stop")
       => /\ cell[shardCells[evictor.cur]].sessions = {}
          /\ \A h \in Handlers : sess'[h].calls = sess[h].calls]_vars

\* Cell.Stop was called on the Cell and has returned.
StopReturned(c) ==
  /\ cell[c].done
  /\ IF evictor.pc = "stop" THEN shardCells[evictor.cur] # c ELSE TRUE
  /\ IF hub.pc = "stop" THEN shardCells[hub.cur] # c ELSE TRUE

\* C29: after Cell.Stop has returned, the loop of the Cell enqueues no
\* further event to any Connector.
C29_NothingAfterStop ==
  [][\A c \in CellIds :
       (StopReturned(c) /\ loop'[c] # loop[c])
       => \A h \in Handlers : sess'[h].enq = sess[h].enq]_vars

\* C30: when a Register constructs a new Cell for a user whose Cell the
\* evictor reclaimed, the loop of the reclaimed Cell has exited: at no
\* instant are two delivery loops running for one user.
C30_OneLoopPerUser ==
  ~hub.once =>
    \A c, d \in CellIds :
      (/\ c # d /\ cell[c].user # 0 /\ cell[c].user = cell[d].user
       /\ loop[c].pc \notin {"none", "exited"})
      => loop[d].pc \in {"none", "exited"}

\* C31: the set of Cells changes only by Register (a Cell is added), by an
\* evictor sweep or by Shutdown (Cells are removed): Broadcast, the locality
\* test of the binder and Unregister leave it as it is, and right after the
\* Unregister of a user's last session the user is still connected.
C31_CellSetFrame ==
  [][/\ \A u \in Users :
          shardCells'[u] # shardCells[u] =>
            IF shardCells[u] = 0
            THEN \E h \in Handlers :
                   /\ handler[h].user = u /\ handler[h].pc = "new"
                   /\ handler'[h].pc = "attach"
                   /\ handler'[h].cell = shardCells'[u]
            ELSE /\ shardCells'[u] = 0
                 /\ \/ evictor.pc = "stop" /\ evictor.cur = u
                    \/ hub.pc = "scan" /\ hub.todo = {}
                       /\ getShard(u) = hub.shard
     /\ \A h \in Handlers :
          (handler[h].pc = "unsub" /\ handler'[h].pc = "done")
          => /\ shardCells' = shardCells
             /\ shardCells[handler[h].user] # 0
                  => shardCells'[handler[h].user] # 0]_vars

\* The last session of a user has been unregistered and the user's Cell,
\* with no session, is still the one stored in the Hub, not stopped.
C31_Witness ==
  \E h \in Handlers :
    /\ handler[h].pc = "done" /\ handler[h].connID # 0
    /\ handler[h].cell # 0
    /\ shardCells[handler[h].user] = handler[h].cell
    /\ cell[handler[h].cell].sessions = {}
    /\ ~cell[handler[h].cell].done
    /\ nextEv > 1

\* C32: Cell.IsIdle(timeout) is true exactly when the Cell has no session
\* and the time since its most recent activity (construction, Push, Attach,
\* Detach) is strictly greater than timeout, for a timeout below the second
\* too.
C32_IdleExactly ==
  \A c \in CellIds :
    cell[c].user # 0 =>
      (IsIdle(cell[c], cfg.idleTimeout)
         <=> (cell[c].sessions = {} /\ now - cell[c].act > cfg.idleTimeout))

\* C33: ResolvePeer caches a peer only when its resolution succeeded: after
\* a ResolvePeer whose remote lookup failed the cache has no entry for the
\* peer's ID (the lookup was made because it had none), so that the next
\* ResolvePeer for the ID looks it up again.
C33_FailureNotCached ==
  (enricher.op = "ResolvePeer" /\ enricher.looked = <<"error">>)
    => enricher.cache[enricher.in[1].id] = NoPeer

\* C34: the marshal cache slot of an event is written at most once, however
\* many sessions of the user marshal the event.
C34_SlotWrittenOnce ==
  \A e \in EventIds : evCache[e] <= 1

\* C35: Close affects only the session its handle was issued for: whenever a
\* session is cancelled and closed by a Close, the Close was made by the
\* session's own handler or by the Stop of a Cell through the entry of that
\* session, never through the handle of an earlier session of the pooled
\* object.
C35_CloseOwnSessionOnly ==
  [][\A s \in Handlers :
       sess'[s].cancels > sess[s].cancels =>
         \/ handler[s].pc = "close1" /\ handler'[s].pc = "close2"
         \/ /\ hub.pc = "stop"
            /\ \E x \in cell[shardCells[hub.cur]].sessions : x.id = s]_vars

\* C36: a Connector is in the session set of a Cell only while that Cell is
\* the one stored in the Hub for the user and not stopped: a Cell whose Stop
\* has returned has no session, and no Attach lands on it.
C36_NoSessionOnStoppedCell ==
  \A c \in CellIds :
    /\ StopReturned(c) => cell[c].sessions = {}
    /\ (cell[c].sessions # {} /\ ~cell[c].done)
         => shardCells[cell[c].user] = c

\* C38: Connector.Send never performs a channel send on a queue that Close
\* has already closed, in any interleaving of a Send with a Close on the same
\* Connector.
C38_NoSendOnClosedQueue == crashed # "send on closed channel"

\* C39: a Register after or during Shutdown never writes into a shard map that
\* Shutdown has set to nil: it does not panic (the shard lock is not left held
\* by a panicked Register) and creates no Cell in a shut-down shard.
C39_RegisterAfterShutdownSafe ==
  /\ crashed # "assignment to entry in nil map"
  /\ \A s \in Shards : shardLock[s] # "dead"
  /\ \A c \in CellIds :
       (cell[c].user # 0 /\ ~cell[c].stored) => loop[c].pc = "none"

\* C40: Cell.Stop runs at most once per Cell, whatever the interleaving of
\* evictor sweeps with Shutdown: no Cell's done signal is closed twice (the
\* only double close that could crash is one of the Hub's own stop signal).
C40_StopAtMostOnce ==
  /\ \A c \in CellIds : cell[c].stops <= 1
  /\ crashed = "close of closed channel" => hub.closes > 1

\* Shutdown has returned after the evictor reaped a Cell: the evictor stopped
\* one Cell of the user, Shutdown the one created after it.
C40_Witness ==
  /\ hub.pc = "done"
  /\ \A c \in CellIds : cell[c].stops = 1 /\ cell[c].done
  /\ \E c, d \in CellIds : c # d /\ cell[c].user = cell[d].user

\* A caller is waiting for the session lock of Cell c: an Attach or a Detach
\* of a handler, or the Cell.Stop of Shutdown or of the evictor.
WaitsForCellMu(c) ==
  \/ \E h \in Handlers : handler[h].pc = "attach" /\ handler[h].cell = c
  \/ \E h \in Handlers :
       /\ handler[h].pc = "unsub"
       /\ shardLock[getShard(handler[h].user)] = "free"
       /\ shardCells[handler[h].user] = c
  \/ hub.pc = "stop" /\ (IF hub.cur = 0 THEN FALSE ELSE shardCells[hub.cur] = c)
  \/ /\ evictor.pc = "stop"
     /\ (IF evictor.cur = 0 THEN FALSE ELSE shardCells[evictor.cur] = c)

\* A caller is waiting for the lock of shard s: a Register or an Unregister,
\* Shutdown or the evictor.
WaitsForShard(s) ==
  \/ \E h \in Handlers :
       handler[h].pc \in {"new", "unsub"} /\ getShard(handler[h].user) = s
  \/ hub.pc = "lock" /\ hub.shard = s
  \/ evictor.pc = "lock" /\ evictor.shard = s

\* C37: no reachable state is a deadlock: no caller waits for a Cell's session
\* lock that a delivery parked for ever in Send holds, and none waits for a
\* shard lock whose holder will never release it.
C37_NoDeadlock ==
  Alive =>
    /\ \A c \in CellIds : loop[c].spc = "stuck" => ~WaitsForCellMu(c)
    /\ \A s \in Shards : shardLock[s] = "dead" => ~WaitsForShard(s)

\* C18: Hub.Shutdown is single-shot: a second call has no effect, the stop
\* signal is closed exactly once and no Cell is stopped a second time.
C18_ShutdownOnce ==
  /\ hub.closes <= 1
  /\ hub.calls > 0 => hub.closes = 1
  /\ \A c \in CellIds : cell[c].stops <= 1
  /\ crashed # "close of closed channel"

\* Shutdown was called a second time after it had stopped a Cell and
\* returned.
C18_Witness ==
  /\ hub.calls = 2 /\ hub.pc = "done" /\ hub.closes = 1
  /\ \E c \in CellIds : cell[c].stops = 1 /\ cell[c].sessions = {}
  /\ \E h \in Handlers : sess[h].puts = 1

\* ----------------------------------------------------------------- Connector
\* C4: for one user on one session the events read from Recv are an
\* order-preserving subsequence of the events in Broadcast order: no two
\* delivered events appear in the opposite order, full-queue Sends included.
C4_RecvInBroadcastOrder ==
  \A h \in Handlers : \A i, j \in DOMAIN handler[h].got :
    i < j => handler[h].got[i].id < handler[h].got[j].id

\* C5: delivery is at most once per session: for every bus message and every
\* session, at most one event derived from the message is ever enqueued to
\* the session's Connector, across all invocations of the binder for it.
C5_AtMostOncePerMessage ==
  \A s \in Handlers, m \in Msgs :
    Cardinality({i \in DOMAIN sess[s].enq : sess[s].enq[i].msg = m}) <= 1

\* C6: Close is idempotent per Connector session: however many times it is
\* called, the session context is cancelled once, the queue is closed once
\* and the object is returned to the pool once.
C6_CloseOnce ==
  \A s \in Handlers :
    /\ sess[s].cancels <= 1
    /\ sess[s].closes <= 1
    /\ sess[s].puts <= 1
    /\ sess[s].calls > 0 /\ (\A p \in Ptrs : obj[p].once # "running")
         => sess[s].cancels = 1 /\ sess[s].closes = 1 /\ sess[s].puts = 1

\* Cell.Stop and the long-poll handler both called Close on one session.
C6_Witness ==
  \E s \in Handlers :
    /\ sess[s].calls >= 2
    /\ sess[s].cancels = 1 /\ sess[s].closes = 1 /\ sess[s].puts = 1

\* C3: every event a transport session obtains through Recv of its Connector
\* handle has the userID the session subscribed with, also after Connectors
\* were closed and their pooled objects checked out for another user.
C3_OwnEventsOnly ==
  \A h \in Handlers : \A i \in DOMAIN handler[h].got :
    handler[h].got[i].user = handler[h].user

\* The Send that deliver runs to its return in this step, if there is one.
SendDone(c) == loop[c].pending \ loop'[c].pending

\* C7: after Close of a Connector has completed, every Send on that Connector
\* returns false and enqueues nothing.
C7_SendAfterClose ==
  [][\A c \in CellIds : \A x \in SendDone(c) :
       (loop[c].spc = "idle" /\ sess[x.id].puts > 0)
         => loop'[c].ret = "false" /\ sess' = sess]_vars

\* C8: once the transport context of a session is cancelled, Close not yet
\* called, every Send that begins returns false and enqueues nothing, also
\* when the queue has room.
C8_SendAfterCancel ==
  [][\A c \in CellIds : \A x \in SendDone(c) :
       (/\ loop[c].spc = "idle"
        /\ handler[obj[x.ptr].sess].tctx
        /\ sess[obj[x.ptr].sess].calls = 0)
         => loop'[c].ret = "false" /\ sess' = sess]_vars

\* C9: every Send returns: none waits forever, also when Close runs on the
\* Connector while the Send is in its backpressure branch.
C9_SendNeverParked == \A c \in CellIds : loop[c].spc # "stuck"

\* C10: the queue is full, the incoming event is above Low and the oldest
\* queued event is strictly lower than it: Send returns true and the queue is
\* the previous one without its oldest event and with the incoming one at the
\* tail, its length unchanged.
C10_Replace ==
  [][\A c \in CellIds :
       LET l == loop[c]
           ch == sendCh(l.sx.ptr)
       IN  (/\ l.spc = "put" /\ loop'[c].spc = "idle"
            /\ Len(l.sq) = cfg.bufferSize
            /\ l.ev.prio > PriorityLow
            /\ Head(l.sq).prio < l.ev.prio
            /\ ch # 0
            /\ sess[ch].buf = Tail(l.sq))
             => /\ loop'[c].ret = "true"
                /\ sess'[ch].buf = Append(Tail(l.sq), l.ev)
                /\ Len(sess'[ch].buf) = Len(l.sq)]_vars

\* C12: Send of a Low event to a full queue returns false at once, without
\* waiting for any part of the timeout: only a Send of a higher event waits
\* in the select of Send for the delivery window to end.
C12_LowNeverWaits ==
  \A c \in CellIds : loop[c].spc = "blocked" => loop[c].ev.prio > PriorityLow

\* C13: every event lost at a Connector under backpressure adds exactly 1 to
\* droppedCount: the rejected incoming event, and also the queued event that
\* a higher one displaces when Send returns true.
C13_LossIsCounted ==
  [][\A c \in CellIds :
       LET l == loop[c]
           p == l.sx.ptr
       IN  (/\ l.spc \in {"blocked", "bp", "put"} /\ loop'[c].spc = "idle"
            /\ ~CtxDone(obj[p].sess)
            /\ \/ loop'[c].ret = "false"
               \/ l.spc = "put" /\ l.sold \notin SeqToSet(sess'[sendCh(p)].buf))
             => obj'[p].dropped = obj[p].dropped + 1]_vars

\* C14: Cell.Push never blocks and returns true exactly when the mailbox holds
\* fewer than its capacity N events: the mailbox never holds more than N, a
\* Push to a full mailbox returns false and changes nothing in it, and a Push
\* after an event was consumed succeeds.
C14_PushBounded ==
  [][\A c \in CellIds :
       /\ Len(cell'[c].mailbox) <= cfg.mailboxSize
       /\ (nextEv' = nextEv + 1 /\ cell'[c] # cell[c])
            => IF Len(cell[c].mailbox) < cfg.mailboxSize
               THEN /\ cell'[c].pushed = "true"
                    /\ Len(cell'[c].mailbox) = Len(cell[c].mailbox) + 1
                    /\ cell'[c].mailbox[Len(cell'[c].mailbox)].id = nextEv
               ELSE /\ cell'[c].pushed = "false"
                    /\ cell'[c].mailbox = cell[c].mailbox]_vars

\* A Push found the mailbox full and returned false, the loop consumed an
\* event, and the next Push succeeded and filled the mailbox again.
C14_Witness ==
  \E c \in CellIds :
    /\ cell[c].pushed = "true"
    /\ Len(cell[c].mailbox) = cfg.mailboxSize
    /\ nextEv > cfg.mailboxSize + 2
    /\ loop[c].ev.id = 1
    /\ cell[c].mailbox[1].id > cfg.mailboxSize + 1

\* C15: after Unsubscribe(userID, connID) returns, the Connector is in no
\* session set of the user and has been closed: its context is cancelled, its
\* queue is closed and the object is back in the pool.
C15_UnsubscribeCloses ==
  [][\A h \in Handlers :
       (handler[h].pc = "unsub" /\ handler'[h].pc = "done")
         => /\ \A c \in CellIds : \A x \in cell'[c].sessions :
                 x.id # handler[h].connID
            /\ sess'[handler[h].connID].cancels = 1
            /\ sess'[handler[h].connID].closed
            /\ sess'[handler[h].connID].puts = 1]_vars

\* C11: the queue is full and stays full: Send of an event of priority <= Low
\* returns false, adds exactly 1 to droppedCount and leaves the contents and
\* the order of the queue as they were.
C11_LowIsShed ==
  [][\A c \in CellIds :
       LET l == loop[c]
           p == l.sx.ptr
       IN  (/\ l.spc = "blocked" /\ loop'[c].spc # "blocked"
            /\ l.ev.prio <= PriorityLow
            /\ l.sch # 0 /\ Len(sess[l.sch].buf) = cfg.bufferSize
            /\ ~CtxDone(l.sctx))
             => /\ loop'[c].spc = "idle" /\ loop'[c].ret = "false"
                /\ obj'[p].dropped = obj[p].dropped + 1
                /\ sess'[l.sch].buf = sess[l.sch].buf
                /\ sess'[l.sch].enq = sess[l.sch].enq]_vars

\* A Send of a Low event has returned false from a full queue of a live
\* session, and the drop was counted.
C11_Witness ==
  \E c \in CellIds, h \in Handlers :
    /\ loop[c].pc = "deliver" /\ loop[c].spc = "idle"
    /\ loop[c].pending = {} /\ loop[c].ret = "false"
    /\ loop[c].ev.prio = PriorityLow
    /\ cell[c].sessions # {}
    /\ \A x \in cell[c].sessions : obj[x.ptr].sess = h /\ obj[x.ptr].dropped = 1
    /\ ~CtxDone(h) /\ ~sess[h].closed
    /\ Len(sess[h].buf) = cfg.bufferSize

\* A full queue whose tail is an event that displaced a lower one: the lower
\* one was enqueued and is neither queued nor received, and nothing was
\* counted as dropped.
C10_Witness ==
  \E h \in Handlers, c \in CellIds :
    LET q == sess[h].buf IN
    /\ Len(q) = cfg.bufferSize
    /\ loop[c].ret = "true"
    /\ \A p \in Ptrs : obj[p].dropped = 0
    /\ \E e \in SeqToSet(sess[h].enq) :
         /\ e \notin SeqToSet(q) /\ e \notin SeqToSet(handler[h].got)
         /\ e.prio < q[Len(q)].prio

====
